---- MODULE Spec2Model ----
(***************************************************************************)
(* Model of the in-process pipeline engine of dashcam-processor:           *)
(* CentralTaskQueue (pipeline/queues.py), the frame store with shared      *)
(* reference counts (pipeline/frame_store.py), the video readers           *)
(* (pipeline/video_reader.py, main.reader_worker), the GPU and CPU worker  *)
(* loops (pipeline/workers), the dispatch handlers                         *)
(* (pipeline/dispatch_handlers.py) and the two-phase shutdown of main.py.  *)
(*                                                                         *)
(* GPUWorkerProcess.run stores each result as an unhandled row             *)
(* (SQLiteStorage.save_result) and calls no handler; the handler that      *)
(* main.py registers for the category is applied to each stored result by  *)
(* a separate dispatch context (FetchResult).  CPUWorkerProcess.run calls  *)
(* the handler itself and releases the task's dependencies afterwards.     *)
(***************************************************************************)
EXTENDS Integers, Sequences, FiniteSets, TLC

\* ------------------------------------------------------------------ bounds
MaxVideos == 2          \* input files, video ids 1..MaxVideos
MaxFrames == 2          \* frames decoded from one file
MaxDet == 1             \* detections the vehicle detector returns per frame
MaxGpuWorkers == 1
MaxCpuWorkers == 2
MaxHardLimit == 2       \* QUEUE_HARD_LIMIT
MaxBacklogLimit == 2    \* MAX_GPU_BACKLOG, MAX_CPU_BACKLOG
MaxSoftLimit == 6       \* QUEUE_SOFT_LIMIT when the queue is driven alone
MaxPushes == 8          \* pushes made when the queue is driven alone
MaxDetHandler == 3      \* detections per frame when the GPU lane runs alone
MaxPlates == 3          \* plates the plate detector returns, and their confidence levels
MaxRefList == 2         \* length of a list of refs when the frame store is driven alone
MaxRefCount == 2        \* references other holders take on one frame
MaxTasks == 3           \* rows of the TaskManager's tasks table
MaxReleases == 2        \* release_refs calls on one frame by the store's callers
MaxNewTasks == 2        \* downstream tasks passed to one mark_task_complete
MaxClock == 5           \* TaskManager calls, each at its own utcnow()

\* --------------------------------------------------------------- categories
VD == "vehicle_yolo"
PD == "plate_yolo"
OCR == "ocr"
TRACK == "vehicle_track"
SMOOTH == "plate_smooth"
SUMMARY == "summary"
FINAL == "final_write"
None == "none"

gpu_categories == <<VD, PD, OCR>>
cpu_categories == <<TRACK, SMOOTH, SUMMARY, FINAL>>
Cats == {VD, PD, OCR, TRACK, SMOOTH, SUMMARY, FINAL}

Videos == 1..MaxVideos
Refs == Videos \X (0..(MaxFrames - 1))

\* worker ids as main.py numbers them: GPU from 0, CPU from 100
GpuWorkers == 0..(MaxGpuWorkers - 1)
CpuWorkers == 100..(100 + MaxCpuWorkers - 1)
Workers == GpuWorkers \cup CpuWorkers
Disp == 1000
Procs == Workers \cup {Disp}
Readers == 1..MaxVideos

Range(s) == {s[i] : i \in DOMAIN s}
Max(a, b) == IF a >= b THEN a ELSE b
Min(a, b) == IF a <= b THEN a ELSE b

RECURSIVE SumSeq(_, _)
SumSeq(f, cs) == IF cs = <<>> THEN 0 ELSE f[Head(cs)] + SumSeq(f, Tail(cs))

\* -------------------------------------------------------------------- tasks
\* A Task (pipeline/task.py) reduced to what the engine looks at: category,
\* provenance, the FINAL_WRITE table, the detection list a VEHICLE_TRACK task
\* carries as payload, the plate (position in the plate detector's list) whose
\* bbox is meta.plate_bbox, the frame index written in the record of a tracks
\* or track_motion FINAL_WRITE payload (0 in every other task).  meta.payload_ref and meta.dependencies are derived;
\* meta.car_bbox is the detection k.
NoTask == [cat |-> None, vid |-> 0, fidx |-> 0, tid |-> 0, k |-> 0, tbl |-> "", dets |-> <<>>,
           plate |-> 0, rec_frame_idx |-> 0]

MkTask(c, v, f, tid, k, tbl, dets) ==
    [cat |-> c, vid |-> v, fidx |-> f, tid |-> tid, k |-> k, tbl |-> tbl, dets |-> dets,
     plate |-> 0, rec_frame_idx |-> 0]

PayloadRef(t) == <<t.vid, t.fidx>>
Dependencies(t) == <<PayloadRef(t)>>

VARIABLES
    cfg,                             \* the run's configuration (environment, inputs)
    stop, terminate,                 \* pipeline/shutdown.py events
    queues, counts, backed_up,       \* CentralTaskQueue
    refcounts, frames,               \* frame store: shared counts, bytes on disk
    video_queue, rpc, rvideo, ridx,  \* reader threads
    dbQueued, results,               \* SQLite tasks with status queued, unhandled results
    wpc, wcur, wtask, kids, to_delete,   \* workers and dispatch context
    tracker, plate_cache,            \* per-process processor state
    worker_status,
    mpc, mtotal, timedOut,           \* main
    accepted, refused, popped, processed, released, loadFailed, dropped,
    failed,                          \* history
    metaCall,                        \* the last handler call looked at for its meta
    tm,                              \* TaskManager: the tasks table, the clock, the last call
    refdict                          \* _refcounts as a dict with its keys, and the last call on it

qvars == <<queues, counts, backed_up>>
fvars == <<refcounts, frames>>
rvars == <<video_queue, rpc, rvideo, ridx>>
dbvars == <<dbQueued, results>>
wvars == <<wpc, wcur, wtask, kids, to_delete, tracker, plate_cache, worker_status>>
mvars == <<mpc, mtotal, timedOut>>
hvars == <<accepted, refused, popped, processed, released, loadFailed, dropped, failed>>
vars == <<cfg, refdict, metaCall, tm, stop, terminate, qvars, fvars, rvars, dbvars, wvars, mvars, hvars>>

\* the worker processes main() starts
Started == {w \in GpuWorkers : w < cfg.ngpu} \cup {w \in CpuWorkers : w < 100 + cfg.ncpu}

\* history bags: how many times an event happened to a task
Inc(b, t) == IF t \in DOMAIN b THEN [b EXCEPT ![t] = @ + 1] ELSE b @@ (t :> 1)
Count(b, t) == IF t \in DOMAIN b THEN b[t] ELSE 0

\* ---------------------------------------------------------- CentralTaskQueue
\* __init__: every category gets the same soft and hard limit (main.py).
soft_limits == [c \in Cats |-> cfg.soft]
hard_limits == [c \in Cats |-> cfg.hard]

\* __init__: a category whose soft limit was not given keeps None
NoLimit == -1

\* `soft is not None`
HasSoft(c) == soft_limits[c] # NoLimit

\* variant: a flag that clears as soon as the depth is below the soft limit
RecoverLevelSoft(soft) == soft - 1

\* int(soft * recover_ratio) with recover_ratio = 0.8
RecoverLevel(soft) == (soft * 8) \div 10

\* variant: a push refused at the soft limit
PushRefusedSoft(c) == counts[c] >= soft_limits[c]

\* variant: the refusal test one task late
PushRefusedLate(c) == counts[c] > hard_limits[c]

\* push: the refusal test under the queue lock (count >= hard, or Full)
PushRefused(c) ==
    \/ counts[c] >= hard_limits[c]
    \/ (hard_limits[c] > 0 /\ Len(queues[c]) >= hard_limits[c])

\* variant: a put that leaves the flag as it was
FlagAfterPushKeep(c, n) == backed_up[c]

\* push: flag after a successful put
FlagAfterPush(c, n) == IF HasSoft(c) /\ n >= soft_limits[c] THEN TRUE ELSE backed_up[c]

\* _update_flags after a pop left n tasks
FlagAfterPop(c, n) ==
    IF ~HasSoft(c) THEN backed_up[c]
    ELSE IF n >= soft_limits[c] THEN TRUE
    ELSE IF n <= RecoverLevel(soft_limits[c]) THEN FALSE
    ELSE backed_up[c]

\* variant: a put that places the task before the queued ones
PutFront(s, t) == <<t>> \o s

\* push: put_nowait places the task behind the tasks already queued
Put(s, t) == Append(s, t)

\* push(task_id, task): one critical section; the caller reads the result in
\* the same step (PushRefused evaluated on the unprimed state).
Push(t) ==
    IF PushRefused(t.cat)
    THEN /\ backed_up' = [backed_up EXCEPT ![t.cat] = TRUE]
         /\ refused' = refused \cup {t}
         /\ UNCHANGED <<queues, counts, accepted>>
    ELSE /\ queues' = [queues EXCEPT ![t.cat] = Put(@, t)]
         /\ counts' = [counts EXCEPT ![t.cat] = @ + 1]
         /\ backed_up' = [backed_up EXCEPT ![t.cat] = FlagAfterPush(t.cat, counts[t.cat] + 1)]
         /\ accepted' = Inc(accepted, t)
         /\ UNCHANGED refused

\* variant: a get that leaves the task in the queue
PopRestKeep(s) == s

\* pop: what get_nowait leaves in the queue
PopRest(s) == Tail(s)

\* pop(category): one critical section.  got = FALSE is get_nowait raising
\* Empty, which leaves counts and flags alone: the queue holds nothing, or the
\* feeder thread of the producer has not yet written the head to the pipe.
PopQ(c, got) ==
    IF got
    THEN /\ queues[c] # <<>>
         /\ queues' = [queues EXCEPT ![c] = PopRest(@)]
         /\ counts' = [counts EXCEPT ![c] = Max(0, @ - 1)]
         /\ backed_up' = [backed_up EXCEPT ![c] = FlagAfterPop(c, Max(0, counts[c] - 1))]
         /\ popped' = Inc(popped, Head(queues[c]))
    ELSE UNCHANGED <<qvars, popped>>

total_backlog == SumSeq(counts, gpu_categories) + SumSeq(counts, cpu_categories)
total_gpu_backlog == SumSeq(counts, gpu_categories)
total_cpu_backlog == SumSeq(counts, cpu_categories)

\* ----------------------------------------------------------------- frame store
\* variant: add_refs that takes no reference
AddRefsNone(rc, refs) == rc

\* add_refs: one critical section over the whole list
RECURSIVE AddRefs(_, _)
AddRefs(rc, refs) ==
    IF refs = <<>> THEN rc
    ELSE AddRefs([rc EXCEPT ![Head(refs)] = @ + 1], Tail(refs))

\* variant: an entry at 2 is popped as well
ReleaseOneEarly(cur) == IF cur <= 2 THEN 0 ELSE cur - 1

\* release_refs, locked part: an entry at 1 (or absent) is popped from the table
ReleaseOne(cur) == IF cur <= 1 THEN 0 ELSE cur - 1

RECURSIVE ReleaseRefs(_, _)
ReleaseRefs(rc, refs) ==
    IF refs = <<>> THEN rc
    ELSE ReleaseRefs([rc EXCEPT ![Head(refs)] = ReleaseOne(@)], Tail(refs))

\* release_refs: the refs collected in to_delete while the lock was held
RECURSIVE ToDelete(_, _)
ToDelete(rc, refs) ==
    IF refs = <<>> THEN {}
    ELSE (IF rc[Head(refs)] <= 1 THEN {Head(refs)} ELSE {})
         \cup ToDelete([rc EXCEPT ![Head(refs)] = ReleaseOne(@)], Tail(refs))

\* _refcounts with its keys: a ref that has no entry is not in the domain
NoRefs == [tbl |-> [r \in {} |-> 0], last |-> [op |-> "none", refs |-> <<>>, before |-> [r \in {} |-> 0]]]

\* _refcounts.get(ref, 0)
DictGet(tbl, r) == IF r \in DOMAIN tbl THEN tbl[r] ELSE 0

\* _refcounts[ref] = v
DictSet(tbl, r, v) == [k \in DOMAIN tbl \cup {r} |-> IF k = r THEN v ELSE tbl[k]]

\* _refcounts.pop(ref, None)
DictPop(tbl, r) == [k \in DOMAIN tbl \ {r} |-> tbl[k]]

\* variant: release_refs that always writes current - 1
PopsEntryNever(current) == FALSE

\* release_refs: the test that removes the entry instead of decrementing it
PopsEntry(current) == current <= 1

RECURSIVE add_refs(_, _)
add_refs(tbl, refs) ==
    IF refs = <<>> THEN tbl
    ELSE add_refs(DictSet(tbl, Head(refs), DictGet(tbl, Head(refs)) + 1), Tail(refs))

RECURSIVE release_refs(_, _)
release_refs(tbl, refs) ==
    IF refs = <<>> THEN tbl
    ELSE release_refs(IF PopsEntry(DictGet(tbl, Head(refs)))
                      THEN DictPop(tbl, Head(refs))
                      ELSE DictSet(tbl, Head(refs), DictGet(tbl, Head(refs)) - 1),
                      Tail(refs))

\* ------------------------------------------------------------------ task meta
\* meta as a mapping from keys to values; the values are tokens: "p" for a
\* value the parent carries, "set" for a value the handler builds from the
\* result, "computed" for video_id:track_id, "None" for Python's None
PassThroughKeys == {"video_path", "video_filename", "video_ts_frame", "global_id"}

EmptyMeta == [k \in {} |-> "None"]

\* task.meta.get(k)
MetaGet(m, k) == IF k \in DOMAIN m THEN m[k] ELSE "None"

\* _merge_meta: the pass-through keys the parent has, then the updates on top
merge_meta(m, updates) ==
    [k \in (PassThroughKeys \cap DOMAIN m) \cup DOMAIN updates |->
        IF k \in DOMAIN updates THEN updates[k] ELSE m[k]]

\* the updates each handler passes to _merge_meta for the child it builds;
\* hasTid: the detection carries a track_id
MetaUpdates(kind, m, hasTid) ==
    CASE kind = "vd_plate" ->
           [k \in {"payload_ref", "car_bbox", "dependencies", "track_id", "global_id"} |->
              IF k = "car_bbox" THEN "set"
              ELSE IF k = "track_id" THEN (IF hasTid THEN "set" ELSE "None")
              ELSE IF k = "global_id" THEN (IF hasTid THEN "computed" ELSE "None")
              ELSE MetaGet(m, k)]
      [] kind = "vd_track" ->
           [k \in {"payload_ref", "dependencies", "fps", "video_fps", "video_ts_ms"} |->
              MetaGet(m, k)]
      [] kind = "pd_ocr" ->
           [k \in {"payload_ref", "car_bbox", "plate_bbox", "dependencies", "global_id"} |->
              IF k = "plate_bbox" THEN "set" ELSE MetaGet(m, k)]
      [] kind = "track_final" ->
           [k \in {"payload_ref", "dependencies"} |-> MetaGet(m, k)]
      [] kind = "ocr_smooth" ->
           [k \in {"payload_ref", "car_bbox", "plate_bbox", "dependencies", "global_id"} |->
              MetaGet(m, k)]
      [] OTHER ->
           [k \in {"payload_ref", "car_bbox", "plate_bbox", "dependencies", "final", "conf",
                    "global_id"} |->
              IF k \in {"final", "conf"} THEN "set" ELSE MetaGet(m, k)]

HandlerKinds == {"vd_plate", "vd_track", "pd_ocr", "track_final", "ocr_smooth", "smooth_final"}

\* the meta of the child a handler builds from a parent with meta m
ChildMeta(kind, m, hasTid) == merge_meta(m, MetaUpdates(kind, m, hasTid))

NoMetaCall == [kind |-> "none", parent |-> EmptyMeta, child |-> EmptyMeta]

\* --------------------------------------------------------------- TaskManager
\* the tasks table as a sequence indexed by task_id; completed_at 0 is None
NoTasks == [tasks |-> <<>>, now |-> 1, last |-> [op |-> "none", id |-> 0, raised |-> "none"]]

\* create_task: Task(state="pending"), completed_at not set
PendingTask == [state |-> "pending", completed_at |-> 0]

\* mark_task_complete: the test that refuses a second completion
AlreadyCompleteNever(t) == FALSE

AlreadyComplete(t) == t.state = "complete"

\* mark_task_complete after the state change, over the downstream creations:
\* dirty is the parent's change still uncommitted in the session, committed is
\* the change written, made the rows added. create_task commits the whole
\* session ("ok"), raises ValueError before touching it ("invalid"), or gets
\* IntegrityError and rolls the whole session back ("integrity")
RECURSIVE Downstream(_, _)
Downstream(outs, st) ==
    IF outs = <<>> THEN st
    ELSE Downstream(Tail(outs),
           CASE Head(outs) = "ok" ->
                  [dirty |-> FALSE, committed |-> st.committed \/ st.dirty, made |-> st.made + 1]
             [] Head(outs) = "integrity" ->
                  [dirty |-> FALSE, committed |-> st.committed, made |-> st.made]
             [] OTHER -> st)

\* the final commit of mark_task_complete: writes what is dirty, or fails and
\* rolls it back
FinalCommit(st, ok) ==
    [dirty |-> FALSE, committed |-> st.committed \/ (ok /\ st.dirty), made |-> st.made]

RECURSIVE AppendPending(_, _)
AppendPending(ts, n) == IF n = 0 THEN ts ELSE AppendPending(Append(ts, PendingTask), n - 1)

\* ------------------------------------------------------------------- Init
\* the state main() has built when the reader threads and the worker
\* processes have been started, for a configuration drawn from S
InitWith(S) ==
    /\ cfg \in S
    /\ stop = FALSE /\ terminate = FALSE
    /\ queues = [c \in Cats |-> <<>>]
    /\ counts = [c \in Cats |-> 0]
    /\ backed_up = [c \in Cats |-> FALSE]
    /\ refcounts = [r \in Refs |-> 0]
    /\ frames = {}
    /\ video_queue = [i \in 1..cfg.nvideos |-> i]
    /\ rpc = [r \in Readers |-> IF r <= Min(cfg.nreaders, cfg.nvideos) THEN "get" ELSE "off"]
    /\ rvideo = [r \in Readers |-> 0]
    /\ ridx = [r \in Readers |-> 0]
    /\ dbQueued = {} /\ results = {}
    /\ wpc = [p \in Procs |-> IF p = Disp THEN "fetch"
                              ELSE IF p \in Started THEN "choose" ELSE "off"]
    /\ wcur = [w \in Workers |-> None]
    /\ wtask = [p \in Procs |-> NoTask]
    /\ kids = [p \in Procs |-> <<>>]
    /\ to_delete = [w \in CpuWorkers |-> {}]
    /\ tracker = [w \in CpuWorkers |-> {}]
    /\ plate_cache = [w \in CpuWorkers |-> <<>>]
    /\ worker_status = [w \in Workers |-> None]
    /\ mpc = "wait" /\ mtotal = 0 /\ timedOut = FALSE
    /\ accepted = <<>> /\ refused = {} /\ popped = <<>> /\ processed = <<>> /\ released = <<>>
    /\ loadFailed = {} /\ dropped = {} /\ failed = {}
    /\ metaCall = NoMetaCall
    /\ tm = NoTasks
    /\ refdict = NoRefs

\* ------------------------------------------------------------ video readers
\* rows the reader's SQLite counters see: queued tasks plus unhandled results
\* that join a tasks row (only the reader saves tasks, so VEHICLE_DETECT rows)
DbBacklog == Cardinality(dbQueued) + Cardinality({x \in results : x.t.cat = VD})

\* VideoReader.run: the pause test of one loop iteration
ReaderBlocked ==
    \/ total_gpu_backlog > cfg.gpu_limit
    \/ total_cpu_backlog > cfg.cpu_limit
    \/ DbBacklog > Max(cfg.gpu_limit, cfg.cpu_limit)

\* variant: the backpressure test made before the stop test
ReaderPausedAnyway == ReaderBlocked

\* VideoReader.run: an iteration that sleeps and starts over; the loop
\* condition (stop) is tested before the backlogs are
ReaderPaused == ~stop /\ ReaderBlocked

FrameTask(v, f) == MkTask(VD, v, f, 0, 0, "", <<>>)

\* VideoReader.__init__: cap.isOpened() is false, RuntimeError is raised
OpenFails(v) == v \in cfg.bad

\* reader_worker after the exception of a file: except Exception logs,
\* finally task_done, and the while loop goes on to the next file
AfterOpenFailureExit == "exit"

AfterOpenFailure == "get"

\* main.reader_worker: claim the next file, or leave when stop is set or none
\* is left; a file that does not open is given up and the loop continues
ReaderGet(r) ==
    /\ rpc[r] = "get"
    /\ IF stop \/ video_queue = <<>>
       THEN /\ rpc' = [rpc EXCEPT ![r] = "exit"]
            /\ UNCHANGED <<video_queue, rvideo, ridx>>
       ELSE /\ video_queue' = Tail(video_queue)
            /\ IF OpenFails(Head(video_queue))
               THEN /\ rpc' = [rpc EXCEPT ![r] = AfterOpenFailure]
                    /\ UNCHANGED <<rvideo, ridx>>
               ELSE /\ rvideo' = [rvideo EXCEPT ![r] = Head(video_queue)]
                    /\ ridx' = [ridx EXCEPT ![r] = 0]
                    /\ rpc' = [rpc EXCEPT ![r] = "run"]
    /\ UNCHANGED <<cfg, refdict, metaCall, tm, stop, terminate, qvars, fvars, dbvars, wvars, mvars, hvars>>

\* VideoReader.run, one iteration up to the push: stop test, backpressure
\* test, cap.read, then enqueue_frame's save_frame and db.save_task
ReaderRead(r) ==
    /\ rpc[r] = "run"
    /\ ~ReaderPaused
    /\ IF stop \/ ridx[r] >= cfg.nframes
       THEN /\ rpc' = [rpc EXCEPT ![r] = "get"]
            /\ UNCHANGED <<frames, dbQueued>>
       ELSE /\ frames' = frames \cup {<<rvideo[r], ridx[r]>>}
            /\ dbQueued' = dbQueued \cup {FrameTask(rvideo[r], ridx[r])}
            /\ rpc' = [rpc EXCEPT ![r] = "push"]
    /\ UNCHANGED <<cfg, refdict, metaCall, tm, stop, terminate, qvars, refcounts, video_queue, rvideo, ridx,
                   results, wvars, mvars, hvars>>

\* enqueue_frame: self.queue.push(task_id, task), result not looked at
ReaderPush(r) ==
    /\ rpc[r] = "push"
    /\ Push(FrameTask(rvideo[r], ridx[r]))
    /\ dropped' = IF PushRefused(VD) THEN dropped \cup {FrameTask(rvideo[r], ridx[r])} ELSE dropped
    /\ ridx' = [ridx EXCEPT ![r] = @ + 1]
    /\ rpc' = [rpc EXCEPT ![r] = "run"]
    /\ UNCHANGED <<cfg, refdict, metaCall, tm, stop, terminate, fvars, video_queue, rvideo, dbvars, wvars, mvars,
                   popped, processed, released, loadFailed, failed>>

\* ------------------------------------------------------------------ workers
Lane(w) == IF w \in GpuWorkers THEN gpu_categories ELSE cpu_categories

\* _choose_busiest_gpu_category / _choose_busiest_cpu_category: the loop
\* keeps the first category whose backlog is strictly larger than the best so far
RECURSIVE Busiest(_, _, _)
Busiest(cs, best_cat, best_size) ==
    IF cs = <<>> THEN best_cat
    ELSE IF counts[Head(cs)] > best_size
         THEN Busiest(Tail(cs), Head(cs), counts[Head(cs)])
         ELSE Busiest(Tail(cs), best_cat, best_size)

choose_busiest(w) == Busiest(Lane(w), None, 0)

\* variant: a worker that publishes no category
StatusEntryIdle(cat) == None

\* _update_status(cat): the category written to worker_status[worker_id]
StatusEntry(cat) == cat

\* run, top of the loop: terminate test, category choice, status update and
\* the resource switch (load_vehicle_tracker returns a fresh tracker state)
Choose(w) ==
    /\ wpc[w] = "choose"
    /\ IF terminate
       THEN /\ wpc' = [wpc EXCEPT ![w] = "exit"]
            /\ UNCHANGED <<wcur, tracker, worker_status>>
       ELSE LET cat == choose_busiest(w) IN
            /\ worker_status' = [worker_status EXCEPT ![w] = StatusEntry(cat)]
            /\ wcur' = [wcur EXCEPT ![w] = IF cat = None THEN @ ELSE cat]
            /\ tracker' = IF cat = TRACK /\ wcur[w] # TRACK
                          THEN [tracker EXCEPT ![w] = {}] ELSE tracker
            /\ wpc' = [wpc EXCEPT ![w] = IF cat = None THEN "choose" ELSE "pop"]
    /\ UNCHANGED <<cfg, refdict, metaCall, tm, stop, terminate, qvars, fvars, rvars, dbvars, wtask, kids, to_delete,
                   plate_cache, mvars, hvars>>

\* CentralTaskQueue.pop(cat) as the worker calls it; (None, None) sends the
\* worker back to the top of its loop
Pop(w) ==
    /\ wpc[w] = "pop"
    /\ \E got \in BOOLEAN :
         /\ PopQ(wcur[w], got)
         /\ wtask' = [wtask EXCEPT ![w] = IF got THEN Head(queues[wcur[w]]) ELSE @]
         /\ wpc' = [wpc EXCEPT ![w] = IF got THEN "proc" ELSE "choose"]
    /\ UNCHANGED <<cfg, refdict, metaCall, tm, stop, terminate, fvars, rvars, dbvars, wcur, kids, to_delete,
                   tracker, plate_cache, worker_status, mvars,
                   accepted, refused, processed, released, loadFailed, dropped, failed>>

\* ------------------------------------------------------------- processors
\* results of the vehicle detector: up to MaxDet detections, each with a
\* tracker id (1) or without one (0)
RECURSIVE SeqsUpTo(_, _)
SeqsUpTo(S, n) ==
    IF n = 0 THEN {<<>>}
    ELSE SeqsUpTo(S, n - 1) \cup {Append(s, x) : s \in {q \in SeqsUpTo(S, n - 1) : Len(q) = n - 1}, x \in S}

DetResults == SeqsUpTo({1}, cfg.ndet)

\* results of the plate detector: up to cfg.nplates plates, each with a
\* confidence level; a plate's bbox is its position in the list
PlateResults == SeqsUpTo(1..cfg.nplates, cfg.nplates)

\* process_vehicle_track: one entry per detection that has a track_id;
\* is_new when the tracker state of this process has not seen the id
RECURSIVE TrackResult(_, _, _)
TrackResult(dets, vid, seen) ==
    IF dets = <<>> THEN <<>>
    ELSE IF Head(dets) = 0 THEN TrackResult(Tail(dets), vid, seen)
    ELSE <<[tid |-> Head(dets), is_new |-> <<vid, Head(dets)>> \notin seen]>>
         \o TrackResult(Tail(dets), vid, seen \cup {<<vid, Head(dets)>>})

\* `task.frame_idx or -1`
EntryFrameIdx(fidx) == IF fidx = 0 THEN -1 ELSE fidx

\* process_vehicle_track(task, state): the entries with their frame_idx
process_vehicle_track(t, seen) ==
    [i \in DOMAIN TrackResult(t.dets, t.vid, seen) |->
        [tid |-> TrackResult(t.dets, t.vid, seen)[i].tid,
         is_new |-> TrackResult(t.dets, t.vid, seen)[i].is_new,
         frame_idx |-> EntryFrameIdx(t.fidx)]]

TrackSeen(dets, vid) == {<<vid, dets[i]>> : i \in {j \in DOMAIN dets : dets[j] # 0}}

\* --------------------------------------------------------- dispatch handlers
\* variant: a handler that spawns a plate task for the first detection only
PlateTasksFirst(t, dets, k) ==
    IF dets = <<>> THEN <<>> ELSE <<MkTask(PD, t.vid, t.fidx, Head(dets), k, "", <<>>)>>

\* handle_vehicle_detect_result: one PLATE_DETECT per detection, then one VEHICLE_TRACK
RECURSIVE PlateTasks(_, _, _)
PlateTasks(t, dets, k) ==
    IF dets = <<>> THEN <<>>
    ELSE <<MkTask(PD, t.vid, t.fidx, Head(dets), k, "", <<>>)>> \o PlateTasks(t, Tail(dets), k + 1)

handle_vehicle_detect_result(t, dets) ==
    PlateTasks(t, dets, 1) \o <<MkTask(TRACK, t.vid, t.fidx, 0, 0, "", dets)>>

\* variant: the first plate of the list whatever its confidence
BestPlateFirst(plates) == 1

\* max(result_obj, key=conf): the first plate whose confidence no other exceeds
BestPlate(plates) ==
    CHOOSE i \in DOMAIN plates :
        /\ \A j \in DOMAIN plates : plates[j] <= plates[i]
        /\ \A j \in 1..(i - 1) : plates[j] < plates[i]

\* handle_plate_detect_result: one OCR task for the best plate unless the
\* plate list is empty
handle_plate_detect_result(t, plates) ==
    IF plates = <<>> THEN <<>>
    ELSE <<[MkTask(OCR, t.vid, t.fidx, t.tid, t.k, "", <<>>) EXCEPT !.plate = BestPlate(plates)]>>

\* variant: a PLATE_SMOOTH task whatever the text
handle_ocr_result_always(t, found) ==
    <<[MkTask(SMOOTH, t.vid, t.fidx, t.tid, t.k, "", <<>>) EXCEPT !.plate = t.plate]>>

\* handle_ocr_result: one PLATE_SMOOTH task unless the text is empty
handle_ocr_result(t, found) ==
    IF found THEN <<[MkTask(SMOOTH, t.vid, t.fidx, t.tid, t.k, "", <<>>) EXCEPT !.plate = t.plate]>>
    ELSE <<>>

\* handle_vehicle_track_result: per entry a tracks row when is_new, then a track_motion row
RECURSIVE handle_vehicle_track_result(_, _, _)
handle_vehicle_track_result(t, res, k) ==
    IF res = <<>> THEN <<>>
    ELSE (IF Head(res).is_new
          THEN <<[MkTask(FINAL, t.vid, t.fidx, Head(res).tid, k, "tracks", <<>>)
                    EXCEPT !.rec_frame_idx = Head(res).frame_idx]>>
          ELSE <<>>)
         \o <<[MkTask(FINAL, t.vid, t.fidx, Head(res).tid, k, "track_motion", <<>>)
                 EXCEPT !.rec_frame_idx = Head(res).frame_idx]>>
         \o handle_vehicle_track_result(t, Tail(res), k + 1)

\* handle_plate_smooth_result: one FINAL_WRITE(vehicles) when final is set
handle_plate_smooth_result(t, final) ==
    IF final THEN <<[MkTask(FINAL, t.vid, t.fidx, t.tid, t.k, "vehicles", <<>>) EXCEPT !.plate = t.plate]>>
    ELSE <<>>

\* variant: a handler that counts nothing for the task it spawns
ChildRefsNone(t) == <<>>

\* frame_store.add_refs(dependencies) in a handler: the list it is given for
\* the downstream task t
ChildRefs(t) == Dependencies(t)

\* push_with_backpressure / add_refs inside a handler: add_refs(dependencies)
\* of the next downstream task
HandlerAdd(p) ==
    /\ wpc[p] = "h_add"
    /\ refcounts' = AddRefs(refcounts, ChildRefs(Head(kids[p])))
    /\ wpc' = [wpc EXCEPT ![p] = "h_push"]
    /\ UNCHANGED <<cfg, refdict, metaCall, tm, stop, terminate, qvars, frames, rvars, dbvars, wcur, wtask, kids,
                   to_delete, tracker, plate_cache, worker_status, mvars, hvars>>

\* where a process goes when its handler has returned
AfterHandler(p) == IF p = Disp THEN "fetch" ELSE "release"

\* variant: a handler that gives up after one attempt
PushAgainNever(c) == FALSE

\* push_with_backpressure: the loop condition, not queue.push(task_id, task)
PushAgain(c) == PushRefused(c)

\* push_with_backpressure: one push attempt; a refusal leaves the handler in its loop
HandlerPush(p) ==
    /\ wpc[p] = "h_push"
    /\ Push(Head(kids[p]))
    /\ IF PushAgain(Head(kids[p]).cat)
       THEN UNCHANGED <<wpc, kids, results, wtask>>
       ELSE /\ kids' = [kids EXCEPT ![p] = Tail(@)]
            /\ wpc' = [wpc EXCEPT ![p] = IF Tail(kids[p]) = <<>> THEN AfterHandler(p) ELSE "h_add"]
            /\ results' = IF p = Disp /\ Tail(kids[p]) = <<>>
                          THEN {x \in results : x.t # wtask[p]} ELSE results
            /\ wtask' = IF p = Disp /\ Tail(kids[p]) = <<>>
                        THEN [wtask EXCEPT ![p] = NoTask] ELSE wtask
    /\ UNCHANGED <<cfg, refdict, metaCall, tm, stop, terminate, fvars, rvars, dbQueued, wcur, to_delete,
                   tracker, plate_cache, worker_status, mvars,
                   popped, processed, released, loadFailed, dropped, failed>>

\* GPUWorkerProcess.run, the try block: processor, db.save_result,
\* db.mark_task_done; an exception (load_frame on an absent frame) is logged
\* and the task marked done.  PLATE_DETECT and OCR load the frame by payload_ref.
GpuProcess(w) ==
    /\ wpc[w] = "proc"
    /\ LET t == wtask[w] IN
       /\ IF t.cat = VD
          THEN /\ \E dets \in DetResults :
                    results' = results \cup {[t |-> t, dets |-> dets, ok |-> FALSE]}
               /\ UNCHANGED loadFailed
          ELSE IF PayloadRef(t) \notin frames
          THEN /\ loadFailed' = loadFailed \cup {t}
               /\ UNCHANGED results
          ELSE IF t.cat = PD
          THEN /\ \E plates \in PlateResults :
                    results' = results \cup {[t |-> t, dets |-> plates, ok |-> plates # <<>>]}
               /\ UNCHANGED loadFailed
          ELSE /\ \E ok \in BOOLEAN :
                    results' = results \cup {[t |-> t, dets |-> <<>>, ok |-> ok]}
               /\ UNCHANGED loadFailed
       /\ dbQueued' = dbQueued \ {t}
       /\ processed' = Inc(processed, t)
    /\ wtask' = [wtask EXCEPT ![w] = NoTask]
    /\ wpc' = [wpc EXCEPT ![w] = "choose"]
    /\ UNCHANGED <<cfg, refdict, metaCall, tm, stop, terminate, qvars, fvars, rvars, wcur, kids, to_delete,
                   tracker, plate_cache, worker_status, mvars,
                   accepted, refused, popped, released, dropped, failed>>

\* observations kept per (video_id, track_id); two are enough to emit a final
CacheCap == 2

\* CPUWorkerProcess.run, the try block up to the handler call: the processor
\* of the category and the list of downstream tasks its handler will spawn
CpuProcess(w) ==
    /\ wpc[w] = "proc"
    /\ LET t == wtask[w]
           key == <<t.vid, t.tid>>
           n == Min(Count(plate_cache[w], key) + 1, CacheCap)
           ks == IF t.cat = TRACK
                 THEN handle_vehicle_track_result(t, process_vehicle_track(t, tracker[w]), 1)
                 ELSE IF t.cat = SMOOTH THEN handle_plate_smooth_result(t, n >= CacheCap)
                 ELSE <<>>
       IN
       /\ tracker' = IF t.cat = TRACK
                     THEN [tracker EXCEPT ![w] = @ \cup TrackSeen(t.dets, t.vid)] ELSE tracker
       /\ plate_cache' = IF t.cat = SMOOTH
                         THEN [plate_cache EXCEPT ![w] =
                                  IF key \in DOMAIN @ THEN [@ EXCEPT ![key] = n] ELSE @ @@ (key :> n)]
                         ELSE plate_cache
       /\ kids' = [kids EXCEPT ![w] = ks]
       /\ wpc' = [wpc EXCEPT ![w] = IF ks = <<>> THEN "release" ELSE "h_add"]
       /\ processed' = Inc(processed, t)
    /\ UNCHANGED <<cfg, refdict, metaCall, tm, stop, terminate, qvars, fvars, rvars, dbvars, wcur, wtask, to_delete,
                   worker_status, mvars, accepted, refused, popped, released, loadFailed, dropped, failed>>

\* CPUWorkerProcess.run, finally: release_refs(deps), the part under the lock
Release(w) ==
    /\ wpc[w] = "release"
    /\ LET deps == Dependencies(wtask[w])
           del == ToDelete(refcounts, deps)
       IN
       /\ refcounts' = ReleaseRefs(refcounts, deps)
       /\ to_delete' = [to_delete EXCEPT ![w] = del]
       /\ released' = Inc(released, wtask[w])
       /\ wpc' = [wpc EXCEPT ![w] = IF del = {} THEN "choose" ELSE "delete"]
       /\ wtask' = IF del = {} THEN [wtask EXCEPT ![w] = NoTask] ELSE wtask
    /\ UNCHANGED <<cfg, refdict, metaCall, tm, stop, terminate, qvars, frames, rvars, dbvars, wcur, kids,
                   tracker, plate_cache, worker_status, mvars,
                   accepted, refused, popped, processed, loadFailed, dropped, failed>>

\* release_refs after the lock is dropped: delete_frame for every ref in to_delete
Delete(w) ==
    /\ wpc[w] = "delete"
    /\ frames' = frames \ to_delete[w]
    /\ to_delete' = [to_delete EXCEPT ![w] = {}]
    /\ wtask' = [wtask EXCEPT ![w] = NoTask]
    /\ wpc' = [wpc EXCEPT ![w] = "choose"]
    /\ UNCHANGED <<cfg, refdict, metaCall, tm, stop, terminate, qvars, refcounts, rvars, dbvars, wcur, kids,
                   tracker, plate_cache, worker_status, mvars, hvars>>

\* variant: a worker that leaves its loop when a task fails
AfterFailureExit(w) == "exit"

\* where a worker goes from its except block: the GPU worker to the top of
\* its loop, the CPU worker to the finally block
AfterFailure(w) == IF w \in GpuWorkers THEN "choose" ELSE "release"

\* GPUWorkerProcess.run, except: the processor raised; nothing is saved, the
\* error is logged, the task marked done
GpuRaise(w) ==
    /\ wpc[w] = "proc"
    /\ failed' = failed \cup {wtask[w]}
    /\ dbQueued' = dbQueued \ {wtask[w]}
    /\ wtask' = [wtask EXCEPT ![w] = NoTask]
    /\ wpc' = [wpc EXCEPT ![w] = AfterFailure(w)]
    /\ UNCHANGED <<cfg, refdict, metaCall, tm, stop, terminate, qvars, fvars, rvars, results, wcur, kids, to_delete,
                   tracker, plate_cache, worker_status, mvars,
                   accepted, refused, popped, processed, released, loadFailed, dropped>>

\* CPUWorkerProcess.run, except: the processor or the handler raised; the
\* downstream tasks not yet pushed are never built, the error is logged
CpuRaise(w) ==
    /\ wpc[w] \in {"proc", "h_add", "h_push"}
    /\ failed' = failed \cup {wtask[w]}
    /\ kids' = [kids EXCEPT ![w] = <<>>]
    /\ wpc' = [wpc EXCEPT ![w] = AfterFailure(w)]
    /\ UNCHANGED <<cfg, refdict, metaCall, tm, stop, terminate, qvars, fvars, rvars, dbvars, wcur, wtask, to_delete,
                   tracker, plate_cache, worker_status, mvars,
                   accepted, refused, popped, processed, released, loadFailed, dropped>>

\* the handler registered for a GPU category applied to one unhandled result
ResultKids(x) ==
    IF x.t.cat = VD THEN handle_vehicle_detect_result(x.t, x.dets)
    ELSE IF x.t.cat = PD THEN handle_plate_detect_result(x.t, x.dets)
    ELSE handle_ocr_result(x.t, x.ok)

FetchResult ==
    /\ wpc[Disp] = "fetch"
    /\ ~terminate
    /\ \E x \in results :
        IF ResultKids(x) = <<>>
        THEN /\ results' = results \ {x}
             /\ UNCHANGED <<wpc, wtask, kids>>
        ELSE /\ wtask' = [wtask EXCEPT ![Disp] = x.t]
             /\ kids' = [kids EXCEPT ![Disp] = ResultKids(x)]
             /\ wpc' = [wpc EXCEPT ![Disp] = "h_add"]
             /\ UNCHANGED results
    /\ UNCHANGED <<cfg, refdict, metaCall, tm, stop, terminate, qvars, fvars, rvars, dbQueued, wcur, to_delete,
                   tracker, plate_cache, worker_status, mvars, hvars>>

\* ---------------------------------------------------------------------- main
Active == \E w \in Workers : worker_status[w] # None
ReadersActive == \E r \in Readers : rpc[r] \notin {"exit", "off"}

\* handle_sigint: SIGINT or SIGTERM while main waits
Sigint ==
    /\ cfg.sigint
    /\ mpc \in {"wait", "wait2"}
    /\ ~stop
    /\ stop' = TRUE
    /\ UNCHANGED <<cfg, refdict, metaCall, tm, terminate, qvars, fvars, rvars, dbvars, wvars, mvars, hvars>>

\* wait loop: stop test and queue.total_backlog()
MainWaitTotal ==
    /\ mpc = "wait"
    /\ IF stop THEN mpc' = "stop" /\ UNCHANGED mtotal
       ELSE mpc' = "wait2" /\ mtotal' = total_backlog
    /\ UNCHANGED <<cfg, refdict, metaCall, tm, stop, terminate, qvars, fvars, rvars, dbvars, wvars, timedOut, hvars>>

\* wait loop: worker_status and reader threads, then the completion test
MainWaitActive ==
    /\ mpc = "wait2"
    /\ mpc' = IF mtotal = 0 /\ ~Active /\ ~ReadersActive THEN "stop" ELSE "wait"
    /\ UNCHANGED <<cfg, refdict, metaCall, tm, stop, terminate, qvars, fvars, rvars, dbvars, wvars, mtotal, timedOut, hvars>>

\* finally, phase 1: stop.set(); the reader threads are joined with a timeout
MainStop ==
    /\ mpc = "stop"
    /\ stop' = TRUE
    /\ mpc' = "drain"
    /\ UNCHANGED <<cfg, refdict, metaCall, tm, terminate, qvars, fvars, rvars, dbvars, wvars, mtotal, timedOut, hvars>>

\* phase 2: backlog = queue.total_backlog()
MainDrainTotal ==
    /\ mpc = "drain"
    /\ mtotal' = total_backlog
    /\ mpc' = "drain2"
    /\ UNCHANGED <<cfg, refdict, metaCall, tm, stop, terminate, qvars, fvars, rvars, dbvars, wvars, timedOut, hvars>>

\* phase 2: the drained test on the backlog read before
Drained == mtotal = 0 /\ ~Active

\* phase 2: worker_status, the drained test, the 60 s timeout
MainDrainActive ==
    /\ mpc = "drain2"
    /\ IF Drained
       THEN mpc' = "term" /\ UNCHANGED timedOut
       ELSE \/ mpc' = "term" /\ timedOut' = TRUE
            \/ mpc' = "drain" /\ UNCHANGED timedOut
    /\ UNCHANGED <<cfg, refdict, metaCall, tm, stop, terminate, qvars, fvars, rvars, dbvars, wvars, mtotal, hvars>>

\* phase 3: terminate.set()
MainTerminate ==
    /\ mpc = "term"
    /\ terminate' = TRUE
    /\ mpc' = "join"
    /\ UNCHANGED <<cfg, refdict, metaCall, tm, stop, qvars, fvars, rvars, dbvars, wvars, mtotal, timedOut, hvars>>

\* joins with timeout, then Process.terminate() on the workers still alive;
\* CPU workers ignore SIGTERM, GPU workers do not
MainForce ==
    /\ mpc = "join"
    /\ wpc' = [p \in Procs |-> IF p \in GpuWorkers /\ wpc[p] \notin {"exit", "off"} THEN "killed" ELSE wpc[p]]
    /\ mpc' = "done"
    /\ UNCHANGED <<cfg, refdict, metaCall, tm, stop, terminate, qvars, fvars, rvars, dbvars, wcur, wtask, kids,
                   to_delete, tracker, plate_cache, worker_status, mtotal, timedOut, hvars>>

\* ------------------------------------------------------------ specification
\* readers, workers and the dispatch context
NextPipeline ==
    \/ \E r \in Readers : ReaderGet(r)
    \/ \E r \in Readers : ReaderRead(r)
    \/ \E r \in Readers : ReaderPush(r)
    \/ \E w \in Workers : Choose(w)
    \/ \E w \in Workers : Pop(w)
    \/ \E w \in GpuWorkers : GpuProcess(w)
    \/ \E w \in CpuWorkers : CpuProcess(w)
    \/ \E p \in CpuWorkers \cup {Disp} : HandlerAdd(p)
    \/ \E p \in CpuWorkers \cup {Disp} : HandlerPush(p)
    \/ \E w \in CpuWorkers : Release(w)
    \/ \E w \in CpuWorkers : Delete(w)
    \/ FetchResult

\* the main thread and the operator
NextMain ==
    \/ Sigint
    \/ MainWaitTotal
    \/ MainWaitActive
    \/ MainStop
    \/ MainDrainTotal
    \/ MainDrainActive
    \/ MainTerminate
    \/ MainForce

Next == NextPipeline \/ NextMain

\* configurations: worker and reader counts, queue limits, the input files,
\* whether the operator interrupts the run
Config(ngpu, ncpu, nreaders, nvideos, nframes, ndet, soft, hard, lim, sigint) ==
    [ngpu |-> ngpu, ncpu |-> ncpu, nreaders |-> nreaders, nvideos |-> nvideos,
     nframes |-> nframes, ndet |-> ndet, soft |-> soft, hard |-> hard,
     gpu_limit |-> lim, cpu_limit |-> lim, sigint |-> sigint, nplates |-> 1,
     bad |-> {}]

Scenarios ==
    { Config(MaxGpuWorkers, MaxCpuWorkers, 1, 1, 1, MaxDet, 1, 1, MaxBacklogLimit, FALSE),
      Config(MaxGpuWorkers, 1, 1, 1, 1, MaxDet, 1, MaxHardLimit, MaxBacklogLimit, TRUE),
      Config(MaxGpuWorkers, 1, 1, 1, 1, MaxDet, 1, 1, MaxBacklogLimit, FALSE),
      Config(MaxGpuWorkers, 1, 1, 1, MaxFrames, 0, 1, 1, MaxBacklogLimit, FALSE),
      Config(MaxGpuWorkers, 1, MaxVideos, MaxVideos, 1, 0, 1, 1, MaxBacklogLimit, FALSE) }

Init == InitWith(Scenarios)

Spec == Init /\ [][Next]_vars

\* ------------------------------------------- processors and handlers that raise
\* one frame with one tracked vehicle through the whole pipeline, every
\* processor and every CPU-lane handler free to raise; main only waits
FaultScenarios ==
    { Config(MaxGpuWorkers, 1, 1, 1, 1, MaxDet, 1, MaxHardLimit, MaxBacklogLimit, FALSE) }

InitFaults == InitWith(FaultScenarios)

NextFaults ==
    \/ NextPipeline
    \/ \E w \in GpuWorkers : GpuRaise(w)
    \/ \E w \in CpuWorkers : CpuRaise(w)

SpecFaults == InitFaults /\ [][NextFaults]_vars

\* ------------------------------------------------------ the GPU lane alone
\* one frame with up to MaxDetHandler detections; the reader, the GPU worker
\* and the dispatch context run, no CPU worker pops the VEHICLE_TRACK task
GpuLaneScenarios ==
    { Config(MaxGpuWorkers, 0, 1, 1, 1, MaxDetHandler, 1, MaxHardLimit, MaxBacklogLimit, FALSE) }

InitGpuLane == InitWith(GpuLaneScenarios)

NextGpuLane ==
    \/ \E r \in Readers : ReaderGet(r)
    \/ \E r \in Readers : ReaderRead(r)
    \/ \E r \in Readers : ReaderPush(r)
    \/ \E w \in GpuWorkers : Choose(w)
    \/ \E w \in GpuWorkers : Pop(w)
    \/ \E w \in GpuWorkers : GpuProcess(w)
    \/ HandlerAdd(Disp)
    \/ HandlerPush(Disp)
    \/ FetchResult

SpecGpuLane == InitGpuLane /\ [][NextGpuLane]_vars

\* ------------------------------------------------- one vehicle over two frames
\* one video of MaxFrames frames, each with up to MaxDet detections of the
\* tracker id 1, one CPU worker; main only waits
TrackScenarios ==
    { Config(MaxGpuWorkers, 1, 1, 1, MaxFrames, MaxDet, 1, MaxHardLimit, MaxBacklogLimit, FALSE) }

InitTrack == InitWith(TrackScenarios)

SpecTrack == InitTrack /\ [][NextPipeline]_vars

\* ------------------------------------------------------ the CPU lane alone
\* the whole CPU worker pool and the dispatch context; the reader and the GPU
\* lane are reduced to what they leave behind for one vehicle read on
\* MaxFrames frames: the stored frame, the reference the OCR task holds (the
\* GPU worker releases none, so no frame is deleted), and the OCR result with
\* a non-empty text
CpuLaneScenarios ==
    { Config(0, MaxCpuWorkers, 0, 0, MaxFrames, MaxDet, 1, 1, MaxBacklogLimit, FALSE) }

InitCpuLane == InitWith(CpuLaneScenarios)

OcrTask(f) == [MkTask(OCR, 1, f, 1, 1, "", <<>>) EXCEPT !.plate = 1]

\* GPUWorkerProcess.run for an OCR task: db.save_result
OcrResult(f) ==
    /\ f < cfg.nframes
    /\ Count(processed, OcrTask(f)) = 0
    /\ results' = results \cup {[t |-> OcrTask(f), dets |-> <<>>, ok |-> TRUE]}
    /\ processed' = Inc(processed, OcrTask(f))
    /\ frames' = frames \cup {PayloadRef(OcrTask(f))}
    /\ refcounts' = AddRefs(refcounts, Dependencies(OcrTask(f)))
    /\ UNCHANGED <<cfg, refdict, metaCall, tm, stop, terminate, qvars, rvars, dbQueued, wvars, mvars,
                   accepted, refused, popped, released, loadFailed, dropped, failed>>

NextCpuLane ==
    \/ \E f \in 0..(MaxFrames - 1) : OcrResult(f)
    \/ FetchResult
    \/ \E w \in CpuWorkers : Choose(w)
    \/ \E w \in CpuWorkers : Pop(w)
    \/ \E w \in CpuWorkers : CpuProcess(w)
    \/ \E p \in CpuWorkers \cup {Disp} : HandlerAdd(p)
    \/ \E p \in CpuWorkers \cup {Disp} : HandlerPush(p)
    \/ \E w \in CpuWorkers : Release(w)

SpecCpuLane == InitCpuLane /\ [][NextCpuLane]_vars

\* ------------------------------------------------- plates of one vehicle
\* the GPU lane alone on one frame with up to MaxDet detections, the plate
\* detector returning up to MaxPlates plates at MaxPlates confidence levels
PlateScenarios ==
    { [Config(MaxGpuWorkers, 0, 1, 1, 1, MaxDet, 1, MaxHardLimit, MaxBacklogLimit, FALSE)
         EXCEPT !.nplates = MaxPlates] }

InitPlates == InitWith(PlateScenarios)

SpecPlates == InitPlates /\ [][NextGpuLane]_vars

\* ---------------------------------------------------- the frame store alone
\* the frame store driven by its callers: frames saved, references taken and
\* dropped one at a time, and add_refs(R) followed at once by release_refs(R)
\* for lists R of up to MaxRefList refs, repeats included
RefScenarios == { Config(0, 0, 0, 0, 0, 0, 1, 1, MaxBacklogLimit, FALSE) }

InitRefs == InitWith(RefScenarios)

RefLists == SeqsUpTo(Refs, MaxRefList)

\* save_frame
SaveFrame(r) ==
    /\ r \notin frames
    /\ frames' = frames \cup {r}
    /\ UNCHANGED <<cfg, refdict, metaCall, tm, stop, terminate, qvars, refcounts, rvars, dbvars, wvars, mvars, hvars>>

\* add_refs([r])
TakeRef(r) ==
    /\ refcounts[r] < MaxRefCount
    /\ refcounts' = AddRefs(refcounts, <<r>>)
    /\ UNCHANGED <<cfg, refdict, metaCall, tm, stop, terminate, qvars, frames, rvars, dbvars, wvars, mvars, hvars>>

\* release_refs([r]), delete_frame included
DropRef(r) ==
    /\ refcounts' = ReleaseRefs(refcounts, <<r>>)
    /\ frames' = frames \ ToDelete(refcounts, <<r>>)
    /\ UNCHANGED <<cfg, refdict, metaCall, tm, stop, terminate, qvars, rvars, dbvars, wvars, mvars, hvars>>

\* add_refs(R); release_refs(R) with nothing in between, delete_frame included
RoundTrip(R) ==
    /\ refcounts' = ReleaseRefs(AddRefs(refcounts, R), R)
    /\ frames' = frames \ ToDelete(AddRefs(refcounts, R), R)
    /\ UNCHANGED <<cfg, refdict, metaCall, tm, stop, terminate, qvars, rvars, dbvars, wvars, mvars, hvars>>

NextRefs ==
    \/ \E r \in Refs : SaveFrame(r)
    \/ \E r \in Refs : TakeRef(r)
    \/ \E r \in Refs : DropRef(r)
    \/ \E R \in RefLists : RoundTrip(R)

SpecRefs == InitRefs /\ [][NextRefs]_vars

\* ------------------------------------------- release_refs beside other callers
\* two processes call release_refs on the frames of one video while frames are
\* saved and references taken; release_refs runs as the worker runs it, the
\* locked part and then delete_frame
EvictScenarios == { Config(0, MaxCpuWorkers, 0, 1, MaxFrames, 0, 1, 1, MaxBacklogLimit, FALSE) }

InitEvict == InitWith(EvictScenarios)

EvictRefs == {r \in Refs : r[1] <= cfg.nvideos}

\* a process with a finished task on frame r reaches its release_refs call
CallRelease(w, r) ==
    /\ wpc[w] = "choose"
    /\ Count(released, MkTask(FINAL, r[1], r[2], 0, 0, "vehicles", <<>>)) < MaxReleases
    /\ wtask' = [wtask EXCEPT ![w] = MkTask(FINAL, r[1], r[2], 0, 0, "vehicles", <<>>)]
    /\ wpc' = [wpc EXCEPT ![w] = "release"]
    /\ UNCHANGED <<cfg, refdict, metaCall, tm, stop, terminate, qvars, fvars, rvars, dbvars, wcur, kids,
                   to_delete, tracker, plate_cache, worker_status, mvars, hvars>>

NextEvict ==
    \/ \E r \in EvictRefs : SaveFrame(r)
    \/ \E r \in EvictRefs : TakeRef(r)
    \/ \E w \in CpuWorkers : \E r \in EvictRefs : CallRelease(w, r)
    \/ \E w \in CpuWorkers : Release(w)
    \/ \E w \in CpuWorkers : Delete(w)

SpecEvict == InitEvict /\ [][NextEvict]_vars

\* ------------------------------------------------ the refcount table's keys
\* any sequence of add_refs and release_refs calls on lists of up to
\* MaxRefList refs of one video, releases of absent refs included
DictScenarios == { Config(0, 0, 0, 1, MaxFrames, 0, 1, 1, MaxBacklogLimit, FALSE) }

InitDict == InitWith(DictScenarios)

DictLists == SeqsUpTo(EvictRefs, MaxRefList)

AddCall(R) ==
    /\ \A i \in DOMAIN R : DictGet(add_refs(refdict.tbl, R), R[i]) <= MaxRefCount + 1
    /\ refdict' = [tbl |-> add_refs(refdict.tbl, R),
                   last |-> [op |-> "add", refs |-> R, before |-> refdict.tbl]]
    /\ UNCHANGED <<cfg, metaCall, tm, stop, terminate, qvars, fvars, rvars, dbvars, wvars, mvars, hvars>>

ReleaseCall(R) ==
    /\ refdict' = [tbl |-> release_refs(refdict.tbl, R),
                   last |-> [op |-> "release", refs |-> R, before |-> refdict.tbl]]
    /\ UNCHANGED <<cfg, metaCall, tm, stop, terminate, qvars, fvars, rvars, dbvars, wvars, mvars, hvars>>

NextDict ==
    \/ \E R \in DictLists : AddCall(R)
    \/ \E R \in DictLists : ReleaseCall(R)

SpecDict == InitDict /\ [][NextDict]_vars

\* ------------------------------------------------- a reader under backpressure
\* one video of MaxFrames frames without vehicles, backlog limits of 1, the
\* operator free to interrupt
ReaderScenarios ==
    { Config(MaxGpuWorkers, 1, 1, 1, MaxFrames, 0, 1, MaxHardLimit, 1, TRUE) }

InitReader == InitWith(ReaderScenarios)

SpecReader == InitReader /\ [][Next]_vars

\* reader threads are scheduled: a reader that can take a step takes it
SpecReaderFair ==
    /\ SpecReader
    /\ \A r \in Readers :
         WF_vars(ReaderGet(r)) /\ WF_vars(ReaderRead(r)) /\ WF_vars(ReaderPush(r))

\* ------------------------------------------------ files that do not open
\* MaxVideos files of one frame, any of them unopenable, one reader thread or
\* one per file; the GPU lane runs behind the readers
OpenScenarios ==
    { [Config(MaxGpuWorkers, 0, nr, MaxVideos, 1, 0, 1, MaxHardLimit, MaxBacklogLimit, FALSE)
         EXCEPT !.bad = b] : nr \in 1..MaxVideos, b \in SUBSET Videos }

InitOpen == InitWith(OpenScenarios)

SpecOpen == InitOpen /\ [][NextGpuLane]_vars

\* ---------------------------------------------------- the TaskManager alone
TaskScenarios == { Config(0, 0, 0, 0, 0, 0, 1, 1, MaxBacklogLimit, FALSE) }

InitTasks == InitWith(TaskScenarios)

\* create_task(task_type, ...): ValueError for a missing or unknown type, else
\* a pending row is added and committed, or the commit fails and is rolled back
create_task(validType, commitOk) ==
    /\ tm.now < MaxClock
    /\ Len(tm.tasks) < MaxTasks
    /\ tm' = [tasks |-> IF validType /\ commitOk THEN Append(tm.tasks, PendingTask) ELSE tm.tasks,
              now |-> tm.now + 1,
              last |-> [op |-> "create", id |-> 0,
                        raised |-> IF ~validType THEN "ValueError"
                                   ELSE IF commitOk THEN "none" ELSE "IntegrityError"]]
    /\ UNCHANGED <<cfg, refdict, metaCall, stop, terminate, qvars, fvars, rvars, dbvars, wvars, mvars, hvars>>

NewTaskOutcomes == SeqsUpTo({"ok", "invalid", "integrity"}, MaxNewTasks)

\* mark_task_complete(task_id, new_tasks)
mark_task_complete(id, outs, commitOk) ==
    /\ tm.now < MaxClock
    /\ IF id \notin DOMAIN tm.tasks \/ AlreadyComplete(tm.tasks[id])
       THEN tm' = [tm EXCEPT !.now = @ + 1,
                             !.last = [op |-> "mark", id |-> id, raised |-> "ValueError"]]
       ELSE LET st == FinalCommit(Downstream(outs, [dirty |-> TRUE, committed |-> FALSE, made |-> 0]),
                                  commitOk)
                marked == IF st.committed
                          THEN [tm.tasks EXCEPT ![id] = [state |-> "complete", completed_at |-> tm.now]]
                          ELSE tm.tasks
            IN /\ Len(tm.tasks) + st.made <= MaxTasks
               /\ tm' = [tasks |-> AppendPending(marked, st.made),
                         now |-> tm.now + 1,
                         last |-> [op |-> "mark", id |-> id,
                                   raised |-> IF commitOk THEN "none" ELSE "commit"]]
    /\ UNCHANGED <<cfg, refdict, metaCall, stop, terminate, qvars, fvars, rvars, dbvars, wvars, mvars, hvars>>

NextTasks ==
    \/ \E validType, commitOk \in BOOLEAN : create_task(validType, commitOk)
    \/ \E id \in 1..(MaxTasks + 1) : \E outs \in NewTaskOutcomes : \E commitOk \in BOOLEAN :
          mark_task_complete(id, outs, commitOk)

SpecTasks == InitTasks /\ [][NextTasks]_vars

\* ------------------------------------------------- the meta of spawned tasks
\* every handler called on parents whose meta holds payload_ref and
\* dependencies and any choice among the pass-through keys and a key the
\* engine does not know
MetaScenarios == { Config(0, 0, 0, 0, 0, 0, 1, 1, MaxBacklogLimit, FALSE) }

InitMeta == InitWith(MetaScenarios)

OptionalKeys == PassThroughKeys \cup {"extra"}

ParentMetas ==
    { [k \in {"payload_ref", "dependencies"} \cup ks |-> "p"] : ks \in SUBSET OptionalKeys }

MetaCall(kind, m, hasTid) ==
    /\ metaCall' = [kind |-> kind, parent |-> m, child |-> ChildMeta(kind, m, hasTid)]
    /\ UNCHANGED <<cfg, refdict, tm, stop, terminate, qvars, fvars, rvars, dbvars, wvars, mvars, hvars>>

\* the category a handler takes its parent from, and the one of its child
ParentStage(kind) ==
    CASE kind \in {"vd_plate", "vd_track"} -> VD
      [] kind = "pd_ocr" -> PD
      [] kind = "track_final" -> TRACK
      [] kind = "ocr_smooth" -> OCR
      [] OTHER -> SMOOTH

ChildStage(kind) ==
    CASE kind = "vd_plate" -> PD
      [] kind = "vd_track" -> TRACK
      [] kind = "pd_ocr" -> OCR
      [] kind = "ocr_smooth" -> SMOOTH
      [] OTHER -> FINAL

\* the next handler of the chain, called on the child the last call built
MetaChain(kind, hasTid) ==
    /\ metaCall.kind # "none"
    /\ ChildStage(metaCall.kind) = ParentStage(kind)
    /\ MetaCall(kind, metaCall.child, hasTid)

NextMeta ==
    \/ \E kind \in HandlerKinds : \E m \in ParentMetas : \E hasTid \in BOOLEAN :
          MetaCall(kind, m, hasTid)
    \/ \E kind \in HandlerKinds : \E hasTid \in BOOLEAN : MetaChain(kind, hasTid)

SpecMeta == InitMeta /\ [][NextMeta]_vars

\* ------------------------------------------------- the queue under one client
\* CentralTaskQueue driven by a single producer and a single consumer: pushes
\* of fresh tasks, numbered in push order, and pops, in any interleaving over
\* two categories; no reader, worker or main loop runs.
QueueCats == {VD, FINAL}

QueueScenarios ==
    { Config(0, 0, 0, 0, 0, 0, s, s + d, MaxBacklogLimit, FALSE) :
        s \in 1..MaxSoftLimit, d \in 0..1 }

InitQueue == InitWith(QueueScenarios)

Pushes == Cardinality(DOMAIN accepted) + Cardinality(refused)

QueuePush(c) ==
    /\ Pushes < MaxPushes
    /\ Push(MkTask(c, 0, Pushes, 0, 0, "", <<>>))
    /\ UNCHANGED <<cfg, refdict, metaCall, tm, stop, terminate, fvars, rvars, dbvars, wvars, mvars,
                   popped, processed, released, loadFailed, dropped, failed>>

QueuePop(c) ==
    /\ PopQ(c, TRUE)
    /\ UNCHANGED <<cfg, refdict, metaCall, tm, stop, terminate, fvars, rvars, dbvars, wvars, mvars,
                   accepted, refused, processed, released, loadFailed, dropped, failed>>

NextQueue ==
    \/ \E c \in QueueCats : QueuePush(c)
    \/ \E c \in QueueCats : QueuePop(c)

SpecQueue == InitQueue /\ [][NextQueue]_vars

\* ------------------------------------------- the queue under other limits
\* the single-client queue with a hard limit and a soft limit that is absent,
\* below the hard limit or equal to it
LimitScenarios ==
    { Config(0, 0, 0, 0, 0, 0, s, h, MaxBacklogLimit, FALSE) :
        s \in {NoLimit} \cup 1..MaxHardLimit, h \in 1..MaxHardLimit }

InitLimits == InitWith(LimitScenarios)

SpecLimits == InitLimits /\ [][NextQueue]_vars

\* ---------------------------------------------------------------- properties
\* a worker that has popped a task and not yet finished its iteration
Holding(w) == wpc[w] \in {"proc", "h_add", "h_push", "release", "delete"}

C2_ReleasedOnce ==
    \A t \in DOMAIN popped :
        (\E w \in Workers : Holding(w) /\ wtask[w] = t) \/ Count(released, t) = 1

\* C3: the depth of every category is at most its hard limit
C3_DepthBound ==
    \A c \in Cats : counts[c] <= hard_limits[c] /\ Len(queues[c]) <= hard_limits[c]

\* C3 witness: a handler is retrying a push into a category at its hard limit
C3_Witness ==
    \E p \in Procs :
        /\ wpc[p] = "h_push"
        /\ counts[Head(kids[p]).cat] = hard_limits[Head(kids[p]).cat]
        /\ Head(kids[p]) \in refused

\* C4: a push by a reader or a handler is refused exactly when the depth of
\* the category is at the hard limit; otherwise, whatever the soft limit, the
\* task becomes the tail of its category and the depth grows by one
C4_PushRefusedIffHard ==
    [][ /\ \A r \in Readers : ReaderPush(r) =>
              LET t == FrameTask(rvideo[r], ridx[r]) IN
              IF counts[VD] = hard_limits[VD]
              THEN queues' = queues /\ counts' = counts /\ t \in dropped'
              ELSE /\ queues' = [queues EXCEPT ![VD] = Append(@, t)]
                   /\ counts' = [counts EXCEPT ![VD] = @ + 1]
                   /\ dropped' = dropped
        /\ \A p \in Procs : HandlerPush(p) =>
              LET t == Head(kids[p]) IN
              IF counts[t.cat] = hard_limits[t.cat]
              THEN queues' = queues /\ counts' = counts /\ kids' = kids
              ELSE /\ queues' = [queues EXCEPT ![t.cat] = Put(@, t)]
                   /\ counts' = [counts EXCEPT ![t.cat] = @ + 1]
                   /\ kids'[p] = Tail(kids[p])
      ]_vars

\* C4 witness: a task was accepted into a category whose depth was at the
\* soft limit and below the hard limit
C4_Witness ==
    \E c \in Cats :
        /\ soft_limits[c] < hard_limits[c]
        /\ Len(queues[c]) > soft_limits[c]

\* C5: the bytes of a frame are in the store exactly when its ref has a count
\* of at least 1 in the refcount table
C5_BytesIffCounted == \A r \in Refs : (r \in frames) <=> (refcounts[r] >= 1)

\* C6: every dependency of every queued task has a count of at least 1
C6_QueuedCounted ==
    \A c \in Cats : \A i \in DOMAIN queues[c] :
        \A j \in DOMAIN Dependencies(queues[c][i]) :
            refcounts[Dependencies(queues[c][i])[j]] >= 1

C8_LaneNotBlocked ==
    ~ \A w \in CpuWorkers \cap Started :
        /\ wpc[w] = "h_push"
        /\ Head(kids[w]).cat \in Range(cpu_categories)
        /\ PushRefused(Head(kids[w]).cat)

\* C9: a task is enqueued, popped and processed at most once, and no two
\* workers hold the same task
C9_AtMostOnce ==
    /\ \A t \in DOMAIN accepted : accepted[t] <= 1
    /\ \A t \in DOMAIN popped : popped[t] <= 1 /\ Count(accepted, t) = 1
    /\ \A t \in DOMAIN processed : processed[t] <= 1 /\ Count(popped, t) = 1
    /\ \A v, w \in Workers : (v # w /\ Holding(v) /\ Holding(w)) => wtask[v] # wtask[w]

\* C9 witness: two CPU workers went for the same category and one of them
\* found the queue empty, the other has processed the task
C9_Witness ==
    \E v, w \in CpuWorkers :
        /\ v # w
        /\ worker_status[v] = FINAL /\ worker_status[w] = FINAL
        /\ wpc[v] = "pop" /\ queues[FINAL] = <<>>
        /\ wpc[w] = "choose" /\ \E t \in DOMAIN processed : t.cat = FINAL

\* C10: when main sets terminate without the drain timeout having expired,
\* stop is set, the queues are empty and no worker holds a task
C10_TerminateWhenDrained ==
    [][ (~terminate /\ terminate' /\ ~timedOut) =>
            /\ stop
            /\ \A c \in Cats : queues[c] = <<>>
            /\ \A w \in Workers : ~Holding(w)
      ]_vars

\* C11: once terminate is set, no CPU worker is left retrying a refused push
\* into a CPU-lane category when every other CPU worker has left its loop
C11_WorkersCanExit ==
    ~ (/\ terminate
       /\ \E w \in CpuWorkers \cap Started :
            /\ wpc[w] = "h_push"
            /\ Head(kids[w]).cat \in Range(cpu_categories)
            /\ PushRefused(Head(kids[w]).cat)
            /\ \A v \in (CpuWorkers \cap Started) \ {w} : wpc[v] = "exit")

\* a shutdown that was clean: readers finished, every accepted task processed,
\* nothing queued or in flight in a worker or in the dispatch context,
\* terminate set without timeout and every worker out of its loop by itself
CleanShutdown ==
    /\ terminate /\ ~timedOut
    /\ ~ReadersActive
    /\ \A c \in Cats : queues[c] = <<>> /\ counts[c] = 0
    /\ \A w \in Started : wpc[w] = "exit"
    /\ results = {} /\ wpc[Disp] = "fetch"
    /\ dropped = {} /\ mpc = "done"
    /\ \A t \in DOMAIN accepted : Count(processed, t) = 1

\* C12: after a clean shutdown no ref has a count above 0 and the frame
\* store holds no bytes
C12_CleanShutdownEmpty ==
    CleanShutdown => (\A r \in Refs : refcounts[r] = 0) /\ frames = {}

\* C13: every frame a reader has gone past was enqueued exactly once
C13_NoFrameSkipped ==
    \A r \in Readers : \A f \in 0..(MaxFrames - 1) :
        (rvideo[r] # 0 /\ f < ridx[r]) => Count(accepted, FrameTask(rvideo[r], f)) = 1

\* C14: under a single producer and a single consumer, once a task has been
\* popped every task of its category that was pushed before it has been popped
\* too, whatever was pushed and popped on the other category in between
C14_Fifo ==
    \A t \in DOMAIN accepted : \A u \in DOMAIN popped :
        (t.cat = u.cat /\ t.fidx < u.fidx) => t \in DOMAIN popped

\* two tasks of one category pushed around a push of the other category, the
\* second still queued after the first was popped
C14_Witness ==
    \E t \in DOMAIN popped : \E c \in Cats : \E i \in DOMAIN queues[c] :
        \E x \in DOMAIN accepted :
            /\ c = t.cat /\ x.cat # c
            /\ t.fidx < x.fidx /\ x.fidx < queues[c][i].fidx

\* C15: the counter of a category equals the number of tasks its queue holds,
\* and a pop comes back empty-handed only when the counter is 0
C15_PopWhenBacklog ==
    [][ /\ \A c \in Cats : counts'[c] = Len(queues'[c])
        /\ \A w \in Workers :
             (wpc[w] = "pop" /\ wpc'[w] = "choose") => counts[worker_status[w]] = 0 ]_vars

\* C16: a category at or above its soft limit is flagged, and so is the
\* category of a push that was just refused
C16_FlagAtSoftLimit ==
    [][ /\ \A c \in Cats : counts'[c] >= soft_limits[c] => backed_up'[c]
        /\ \A t \in refused' \ refused : backed_up'[t.cat] ]_vars

\* a category filled to a hard limit above the soft limit, a push refused
C16_Witness ==
    \E c \in Cats :
        /\ hard_limits[c] > soft_limits[c]
        /\ counts[c] = hard_limits[c]
        /\ backed_up[c]
        /\ \E t \in refused : t.cat = c

\* C17: a set flag is cleared only by a pop that leaves the depth at or below
\* floor(0.8 * soft); a pop that leaves more keeps it; a pop that leaves
\* floor(0.8 * soft) - 1 leaves it false; a push never clears it
C17_Hysteresis ==
    [][ \A c \in Cats :
          LET lvl == (8 * soft_limits[c]) \div 10
              isPop == counts'[c] = counts[c] - 1
          IN /\ (backed_up[c] /\ ~backed_up'[c]) => (isPop /\ counts'[c] <= lvl)
             /\ (backed_up[c] /\ isPop /\ counts'[c] > lvl) => backed_up'[c]
             /\ (isPop /\ counts'[c] = lvl - 1) => ~backed_up'[c] ]_vars

\* after a pop the depth is below the soft limit, above the recovery level,
\* and the flag is still set
C17_Witness ==
    \E c \in Cats :
        /\ \E t \in DOMAIN popped : t.cat = c
        /\ counts[c] < soft_limits[c]
        /\ counts[c] > (8 * soft_limits[c]) \div 10
        /\ backed_up[c]

\* C18: the step in which a processor or handler raises pushes nothing and
\* leaves the worker inside its loop; a failed task was enqueued once, popped
\* once and is in no queue afterwards
C18_FailureConfined ==
    [][ /\ \A t \in failed' \ failed :
             /\ queues' = queues /\ accepted' = accepted
             /\ \E w \in Started :
                    /\ wtask[w] = t
                    /\ wpc'[w] \in {"choose", "release"}
        /\ \A t \in failed' :
             /\ Count(accepted', t) = 1 /\ Count(popped', t) = 1
             /\ \A c \in Cats : t \notin Range(queues'[c]) ]_vars

\* the CPU worker failed on the FINAL_WRITE(tracks) task of a frame and has
\* since processed the FINAL_WRITE(track_motion) task queued behind it
C18_Witness ==
    \E t \in failed : \E u \in DOMAIN processed :
        /\ t.cat = FINAL /\ t.tbl = "tracks"
        /\ u.cat = FINAL /\ u.tbl = "track_motion"
        /\ Count(released, t) = 1

C20_OneTracksRow ==
    /\ \A t \in DOMAIN accepted : \A u \in DOMAIN accepted :
          (/\ t.cat = FINAL /\ u.cat = FINAL
           /\ t.tbl = "tracks" /\ u.tbl = "tracks"
           /\ t.vid = u.vid /\ t.tid = u.tid) => t = u
    /\ \A t \in DOMAIN accepted : t.cat = FINAL => accepted[t] = 1

\* C21: when a worker has processed a PLATE_SMOOTH task, its handler spawns a
\* FINAL_WRITE(vehicles) task exactly when some worker of the pool has already
\* processed an observation of the same (video_id, track_id)
C21_FinalFromSecond ==
    [][ \A w \in CpuWorkers :
          (/\ wpc[w] = "proc" /\ wpc'[w] # "proc"
           /\ wtask[w].cat = SMOOTH
           /\ Count(processed', wtask[w]) = Count(processed, wtask[w]) + 1)
          => LET t == wtask[w]
                 earlier == \E u \in DOMAIN processed :
                               u.cat = SMOOTH /\ u.vid = t.vid /\ u.tid = t.tid
             IN kids'[w] = IF earlier
                           THEN <<[MkTask(FINAL, t.vid, t.fidx, t.tid, t.k, "vehicles", <<>>)
                                     EXCEPT !.plate = t.plate]>>
                           ELSE <<>> ]_vars

ChildrenOf(t, c) ==
    {u \in DOMAIN accepted' :
        u.cat = c /\ u.vid = t.vid /\ u.fidx = t.fidx /\ u.tid = t.tid /\ u.k = t.k}

C24_AddReleaseRoundTrip ==
    \A R \in RefLists : ReleaseRefs(AddRefs(refcounts, R), R) = refcounts

\* a table with a ref that is absent, a ref held once and a ref held twice
C24_Witness ==
    \E a \in Refs : \E b \in Refs : \E c \in Refs :
        refcounts[a] = 0 /\ refcounts[b] = 1 /\ refcounts[c] = 2

\* C25: a reader reads a frame only when the GPU-lane and the CPU-lane totals
\* are within their limits, and a reader in its loop is held back only while
\* one of the two totals exceeds its limit
C25_ReaderPausesOnLaneLimits ==
    [][ /\ \A r \in Readers :
             (rpc[r] = "run" /\ rpc'[r] = "push")
             => /\ total_gpu_backlog <= cfg.gpu_limit
                /\ total_cpu_backlog <= cfg.cpu_limit
        /\ \A r \in Readers :
             (/\ rpc'[r] = "run" /\ ~stop'
              /\ total_gpu_backlog' <= cfg.gpu_limit
              /\ total_cpu_backlog' <= cfg.cpu_limit)
             => ~ReaderBlocked' ]_vars

\* C26: once stop is set a reader starts no new frame (only a push already
\* under way is completed, and only VEHICLE_DETECT pushes under way enqueue),
\* a reader in its loop can only leave it, a reader between files can only
\* exit, and every reader does exit, paused by backpressure or not
C26_ReadersStop ==
    /\ [][ stop =>
             /\ \A r \in Readers :
                  /\ (rpc[r] # "push" => rpc'[r] # "push")
                  /\ (rpc[r] = "run" /\ rpc'[r] # "run" => rpc'[r] = "get")
                  /\ (rpc[r] = "get" /\ rpc'[r] # "get" => rpc'[r] = "exit")
                  /\ (rpc[r] = "exit" => rpc'[r] = "exit")
             /\ \A t \in DOMAIN accepted' :
                  (t.cat = VD /\ Count(accepted', t) > Count(accepted, t))
                  => \E r \in Readers : rpc[r] = "push" /\ t = FrameTask(rvideo[r], ridx[r]) ]_vars
    /\ (stop ~> ~ReadersActive)

\* stop is set and a reader has just left its loop with the GPU lane still
\* over its limit: it was paused when it saw stop
C26_Witness ==
    \E r \in Readers :
        /\ stop /\ rpc[r] = "get"
        /\ total_gpu_backlog > cfg.gpu_limit

\* C27: a key of the parent's meta that is not a recognized key (payload_ref,
\* dependencies, car_bbox, plate_bbox, video_path, video_filename,
\* video_ts_frame, video_ts_ms, fps, global_id, final, conf) is in the meta of
\* the child a handler spawns, with the same value
C27_UnrecognizedKeysKept ==
    \A k \in DOMAIN metaCall.parent \
             {"payload_ref", "dependencies", "car_bbox", "plate_bbox", "video_path",
              "video_filename", "video_ts_frame", "video_ts_ms", "fps", "global_id",
              "final", "conf"} :
        k \in DOMAIN metaCall.child /\ metaCall.child[k] = metaCall.parent[k]

ReadersDone == \A r \in Readers : rpc[r] \in {"exit", "off"}

\* how often the frame task of (v, f) was handed to the queue
TimesPushed(v, f) ==
    Count(accepted, FrameTask(v, f)) + (IF FrameTask(v, f) \in dropped THEN 1 ELSE 0)

\* C29: a file that cannot be opened gets no frame, no task row and no queue
\* entry; every other file is held by at most one reader, each of its frames
\* is pushed at most once, and when the readers have finished without a stop
\* request every file was claimed and every frame of every other file was
\* pushed exactly once
C29_OpenFailureConfined ==
    /\ \A v \in cfg.bad : \A f \in 0..(cfg.nframes - 1) :
          /\ <<v, f>> \notin frames
          /\ FrameTask(v, f) \notin dbQueued
          /\ TimesPushed(v, f) = 0
          /\ \A r \in Readers : rpc[r] \in {"run", "push"} => rvideo[r] # v
    /\ \A v \in (1..cfg.nvideos) \ cfg.bad :
          /\ \A f \in 0..(cfg.nframes - 1) : TimesPushed(v, f) <= 1
          /\ \A r1, r2 \in Readers :
                (r1 # r2 /\ rpc[r1] \in {"run", "push"} /\ rpc[r2] \in {"run", "push"}
                   /\ rvideo[r1] = v) => rvideo[r2] # v
    /\ (ReadersDone /\ ~stop) =>
          /\ video_queue = <<>>
          /\ \A v \in (1..cfg.nvideos) \ cfg.bad : \A f \in 0..(cfg.nframes - 1) :
                TimesPushed(v, f) = 1

\* the first file does not open, the single reader went on to the second,
\* read it and left
C29_Witness ==
    /\ cfg.bad = {1} /\ cfg.nreaders = 1 /\ cfg.nvideos = MaxVideos
    /\ ReadersDone
    /\ TimesPushed(MaxVideos, 0) = 1

\* C30: every task enters the table pending with no completed_at; a task that
\* is complete keeps its state and its completed_at for ever, so it is
\* completed once and never pending again; mark_task_complete on a complete
\* task or on an id that is not in the table raises ValueError and changes no
\* row
C30_CompleteOnce ==
    [][ /\ Len(tm'.tasks) >= Len(tm.tasks)
        /\ \A i \in DOMAIN tm'.tasks \ DOMAIN tm.tasks : tm'.tasks[i] = PendingTask
        /\ \A i \in DOMAIN tm.tasks :
              tm.tasks[i].state = "complete" => tm'.tasks[i] = tm.tasks[i]
        /\ \A i \in DOMAIN tm.tasks :
              tm.tasks[i].state = "pending" =>
                \/ tm'.tasks[i] = tm.tasks[i]
                \/ tm'.tasks[i].state = "complete" /\ tm'.tasks[i].completed_at # 0
        /\ (tm'.now # tm.now /\ tm'.last.op = "mark"
              /\ (tm'.last.id \notin DOMAIN tm.tasks
                    \/ tm.tasks[tm'.last.id].state = "complete")) =>
              (tm'.last.raised = "ValueError" /\ tm'.tasks = tm.tasks)
      ]_vars

\* mark_task_complete was just refused on a task completed by an earlier call
C30_Witness ==
    /\ tm.last.op = "mark" /\ tm.last.raised = "ValueError"
    /\ tm.last.id \in DOMAIN tm.tasks
    /\ tm.tasks[tm.last.id].state = "complete"
    /\ tm.tasks[tm.last.id].completed_at # 0
    /\ tm.tasks[tm.last.id].completed_at < tm.now - 1

\* C31: a frame that a release has brought to count 0 gets no reference
\* before its bytes are removed, the eviction being in the critical section
\* of the decrement: no frame awaiting delete_frame has a count of 1 or more
C31_EvictionInCriticalSection ==
    \A w \in CpuWorkers : \A r \in to_delete[w] : refcounts[r] = 0

\* C32: a worker reaches release_refs for its task only when every child the
\* handler spawns has been counted and pushed, and from the completion of a
\* task to the enqueue of its last child the count of the task's frame is at
\* least 1
C32_ChildrenBeforeRelease ==
    /\ \A w \in CpuWorkers : wpc[w] \in {"release", "delete"} => kids[w] = <<>>
    /\ \A p \in Procs : wpc[p] \in {"h_add", "h_push"} => refcounts[PayloadRef(wtask[p])] >= 1
    /\ \A x \in results : ResultKids(x) # <<>> => refcounts[PayloadRef(x.t)] >= 1

\* how many entries of the bag b are tasks of the categories cs on frame r
TimesIn(b, r, cs) ==
    Cardinality(UNION {{<<t, i>> : i \in 1..b[t]} :
                         t \in {u \in DOMAIN b : PayloadRef(u) = r /\ u.cat \in cs}})

\* the downstream tasks on frame r that sit in a queue
QueuedOn(r) ==
    Cardinality({<<c, i>> \in Cats \X (1..MaxPushes) :
                   i \in DOMAIN queues[c] /\ queues[c][i].cat # VD /\ PayloadRef(queues[c][i]) = r})

\* the downstream tasks on frame r that a handler is pushing
PushingOn(r) ==
    Cardinality({p \in Procs : wpc[p] = "h_push" /\ PayloadRef(Head(kids[p])) = r})

C34_ReaderCountsFrame ==
    [][ \A r \in Readers :
          (rpc[r] = "push" /\ rpc'[r] # "push") =>
             LET t == FrameTask(rvideo[r], ridx[r])
             IN /\ PayloadRef(t) = <<rvideo[r], ridx[r]>>
                /\ Dependencies(t) = <<PayloadRef(t)>>
                /\ PayloadRef(t) \in frames
                /\ refcounts[PayloadRef(t)] = 1 ]_vars

\* C35: a worker changes its loaded category only when the queue of the
\* loaded one is empty and the new one has work, and a step that loads a
\* resource is a step that changes the category
C35_SwitchOnlyWhenEmpty ==
    [][ \A w \in Workers :
          /\ (wcur[w] # None /\ wcur'[w] # wcur[w]) =>
                (counts[wcur[w]] = 0 /\ counts[wcur'[w]] > 0)
          /\ (tracker' # tracker /\ wpc[w] = "choose" /\ wpc'[w] = "pop"
                /\ w \in CpuWorkers /\ tracker'[w] # tracker[w]) => wcur'[w] # wcur[w] ]_vars

\* C36: the category a worker would choose is none iff every backlog of its
\* lane is 0; otherwise it has the largest backlog of the lane, and among the
\* categories with that backlog it is the loaded one if that is among them,
\* else the first of them in lane order
C36_BusiestTieToLoaded ==
    \A w \in Workers :
        LET lane == Lane(w)
            top == CHOOSE n \in 0..MaxPushes :
                     /\ \A i \in DOMAIN lane : counts[lane[i]] <= n
                     /\ \E i \in DOMAIN lane : counts[lane[i]] = n
            tied == {i \in DOMAIN lane : counts[lane[i]] = top}
            first == lane[CHOOSE i \in tied : \A j \in tied : i <= j]
        IN IF top = 0 THEN choose_busiest(w) = None
           ELSE choose_busiest(w) = (IF \E i \in tied : lane[i] = wcur[w] THEN wcur[w] ELSE first)

\* C37: a worker that holds a popped task has that task's category in its
\* status entry; every pass through the top of the loop publishes the
\* category just chosen, none when the lane has no work; and a step changes
\* at most the entry of the worker that takes it
C37_StatusTracksActivity ==
    [][ /\ \A w \in Workers :
             wpc'[w] \in {"proc", "h_add", "h_push", "release", "delete"} =>
               (worker_status'[w] = wtask'[w].cat /\ worker_status'[w] # None)
        /\ \A w \in Workers :
             (wpc[w] = "choose" /\ wpc'[w] \in {"choose", "pop"}
                /\ <<wpc'[w], wcur'[w], worker_status'[w]>> # <<wpc[w], wcur[w], worker_status[w]>>)
             => worker_status'[w] = choose_busiest(w)
        /\ \A w \in Workers :
             worker_status'[w] # worker_status[w] =>
               (wpc[w] = "choose" /\ \A v \in Workers \ {w} : worker_status'[v] = worker_status[v])
      ]_vars

\* one worker holds a task under its category while another, which has
\* worked before, found its lane empty and published none
C37_Witness ==
    \E w, v \in Workers :
        /\ w # v
        /\ wpc[w] = "proc" /\ worker_status[w] = wtask[w].cat
        /\ wcur[v] # None /\ worker_status[v] = None /\ wpc[v] = "choose"

\* C38: every entry of the refcount table has a count of at least 1
C38_EntriesAtLeastOne ==
    \A r \in DOMAIN refdict.tbl : refdict.tbl[r] >= 1

\* a release of a ref that had no entry and, twice in one call, of a ref
\* held once, with another ref still in the table
C38_Witness ==
    /\ refdict.last.op = "release"
    /\ \E r \in Range(refdict.last.refs) : r \notin DOMAIN refdict.last.before
    /\ \E i, j \in DOMAIN refdict.last.refs :
          i # j /\ refdict.last.refs[i] = refdict.last.refs[j]
    /\ DOMAIN refdict.tbl # {}

\* C39: a pop that leaves a category empty leaves its backed_up flag false,
\* whatever limits the queue was built with
C39_EmptyNotBackedUp ==
    [][ \A c \in Cats :
          (queues[c] # <<>> /\ queues'[c] = <<>>) => ~backed_up'[c] ]_vars

\* C40: every entry the VEHICLE_TRACK processor computes for a task carries
\* that task's frame_idx, and so does the record of every tracks and
\* track_motion FINAL_WRITE task, frame 0 included
C40_TrackFrameIdx ==
    /\ \A t \in DOMAIN popped :
          t.cat = TRACK =>
            \A i \in DOMAIN process_vehicle_track(t, {}) :
                process_vehicle_track(t, {})[i].frame_idx = t.fidx
    /\ \A u \in DOMAIN accepted :
          (u.cat = FINAL /\ u.tbl \in {"tracks", "track_motion"}) => u.rec_frame_idx = u.fidx
====
